---- MODULE Spec2Model ----
(***************************************************************************)
(* Model of io-spid-commons' CustomSamlClient (the anti-replay SAML        *)
(* protocol client) around its collaborators: the generic SAML engine, the *)
(* XML tamperer, the pre-validator, the observer and the shared            *)
(* Anti-Replay Cache.                                                      *)
(*                                                                         *)
(* The repository carries two revisions of the client:                     *)
(*   src/src/strategy/saml_client.ts  (observer invoked directly)          *)
(*   src/unnamed/part_000             (observer invoked inside tryCatch2v) *)
(* They differ only in how the observer is invoked; `variant` selects the  *)
(* revision a behaviour runs.                                              *)
(***************************************************************************)
EXTENDS FiniteSets, Integers, Sequences, TLC

\* ---------------------------------------------------------------- bounds
MaxGen == 1        \* calls of generateAuthorizeRequest per behaviour
MaxVal == 2        \* calls of validatePostResponse per behaviour

GenCalls == 1..MaxGen
ValCalls == 1..MaxVal
\* Request identifiers a Response may reference: 0 is never generated, c is
\* the identifier the engine gives to the draft of generate call c.
RequestIds == 0..MaxGen

\* ---------------------------------------------------------------- values
NoErr == "null"
EngineGenerateError == "EngineGenerateError"
TamperError == "TamperError"
StoreError == "StoreError"
ReplayOrUnknownRequestError == "ReplayOrUnknownRequestError"
EngineValidationError == "EngineValidationError"

NoId == -1
NoXml == [id |-> NoId, tampered |-> FALSE]
NoProfile == -1

VARIABLES
    config,     \* constructor arguments of the client(s)
    variant,    \* which revision of the client runs
    cache,      \* the shared Anti-Replay Cache: set of AuthnRequestRecord
    gen,        \* generateAuthorizeRequest calls
    val,        \* validatePostResponse calls
    load,       \* a run of loadSpidStrategy
    cert,       \* a run of logSamlCertExpiration
    merge       \* an application of loadSpidStrategy's merge and idp build

clientVars == <<config, variant, cache, gen, val>>
strategyVars == <<load, cert, merge>>
vars == <<config, variant, cache, gen, val, load, cert, merge>>

\* ------------------------------------------------- external collaborators
\* The engine's draft AuthnRequest for call c.
DraftXml(c) == [id |-> c, tampered |-> FALSE]

\* The tamperer's corrected XML.
TamperedXml(xml) == [xml EXCEPT !.tampered = TRUE]

\* Anti-Replay Cache, save: extracts the identifier and stores the record.
CacheSave(store, xml) ==
    {r \in store : r.requestId # xml.id}
        \cup {[requestId |-> xml.id, RequestXML |-> xml]}

\* Anti-Replay Cache, remove: deletes the record if present (idempotent).
CacheRemove(store, requestId) == {r \in store : r.requestId # requestId}

\* Anti-Replay Cache, lookup of a live record.
CacheHas(store, requestId) == \E r \in store : r.requestId = requestId

\* The pre-validator: looks InResponseTo up in the cache and answers its
\* callback with (err, isValid, AuthnRequestID).
PreValidateResponse(store, body) ==
    IF CacheHas(store, body.InResponseTo)
    THEN [err |-> NoErr, isValid |-> TRUE, AuthnRequestID |-> body.InResponseTo]
    ELSE [err |-> ReplayOrUnknownRequestError, isValid |-> FALSE,
          AuthnRequestID |-> NoId]

\* What a pre-validator may answer. For an identifier with no live record
\* the answer is the error above. For a live one the callback's signature
\* (err, isValid?, AuthnRequestID?) leaves both results optional: it may
\* report no error and yet no validity or no identifier, the case the
\* client's `isValid && AuthnRequestID` test provides for.
PreValidateAnswers(store, body) ==
    {PreValidateResponse(store, body)} \cup
    (IF CacheHas(store, body.InResponseTo)
     THEN {[err |-> NoErr, isValid |-> FALSE, AuthnRequestID |-> NoId],
           [err |-> NoErr, isValid |-> TRUE, AuthnRequestID |-> NoId]}
     ELSE {})

\* The engine's validatePostResponse: answers (error, profile, loggedOut).
EngineValidatePostResponse(body) ==
    IF body.engineValid
    THEN [err |-> NoErr, profile |-> body.InResponseTo]
    ELSE [err |-> EngineValidationError, profile |-> NoProfile]

\* ------------------------------------------------ CustomSamlClient, pieces
\* Variant of NewCallbackNext that tampers whether or not a tamperer is
\* configured.
NewCallbackNext_AlwaysTamper(hasTamperer, xml) ==
    IF xml # NoXml THEN "tamper" ELSE "done"

\* Variant of NewCallbackNext without the `xml ?` test: a draft without XML
\* is handed to the tamperer too.
NewCallbackNext_NoXmlCheck(hasTamperer, xml) ==
    IF hasTamperer THEN "tamper" ELSE "done"

\* generateAuthorizeRequest: newCallback is the tampering continuation when
\* a tamperer is configured, else the caller's callback itself; with a
\* tamperer, a draft without XML goes to callback(e).
NewCallbackNext(hasTamperer, xml) ==
    IF hasTamperer /\ xml # NoXml THEN "tamper" ELSE "done"

\* The observer invocation inside the chain: guarded by tryCatch2v in
\* part_000, unguarded in saml_client.ts (a throw rejects the promise of the
\* chain: save is not issued and no callback is invoked).
ObserverNext(rev, hasObserver, throws) ==
    IF hasObserver /\ throws /\ rev = "saml_client.ts" THEN "rejected" ELSE "save"

\* Variant of OnSaveAnswer that delivers the XML whatever save answered.
OnSaveAnswer_IgnoreFailure(ok, error, record) ==
    [err |-> NoErr, xml |-> record.RequestXML]

\* .mapLeft(error => callback(error)).map(cache => callback(null, cache.RequestXML))
OnSaveAnswer(ok, error, record) ==
    IF ok THEN [err |-> NoErr, xml |-> record.RequestXML]
          ELSE [err |-> error, xml |-> NoXml]

\* Variant of OnPreValidateError that drops the pre-validator's error.
OnPreValidateError_Swallow(err) == [err |-> NoErr, profile |-> NoProfile]

\* validatePostResponse: if (err) return callback(err)
OnPreValidateError(err) == [err |-> err, profile |-> NoProfile]

\* Variant of AfterPreValidate that goes on to the engine on an error too.
AfterPreValidate_Always(err) == "engine"

\* validatePostResponse: the engine is invoked only when the pre-validator
\* reported no error.
AfterPreValidate(err) == IF err # NoErr THEN "done" ELSE "engine"

\* Variant of ShouldRemove without the `!error` conjunct.
ShouldRemove_NoErrorCheck(error, isValid, AuthnRequestID) ==
    isValid /\ AuthnRequestID # NoId

\* if (!error && isValid && AuthnRequestID)
ShouldRemove(error, isValid, AuthnRequestID) ==
    error = NoErr /\ isValid /\ AuthnRequestID # NoId

\* Variant of OnRemoveAnswer that reports the engine's answer whatever remove
\* answered.
OnRemoveAnswer_IgnoreFailure(ok, removeError, error, profile) ==
    [err |-> error, profile |-> profile]

\* .remove(id).map(_ => callback(error, __, ___)).mapLeft(callback)
OnRemoveAnswer(ok, removeError, error, profile) ==
    IF ok THEN [err |-> error, profile |-> profile]
          ELSE [err |-> removeError, profile |-> NoProfile]

\* ------------------------------------------------------------------ state
NoGenResult == [err |-> NoErr, xml |-> NoXml]
NoValResult == [err |-> NoErr, profile |-> NoProfile]

IdleGen ==
    [pc |-> "idle", draft |-> NoGenResult, xml |-> NoXml, log |-> <<>>,
     result |-> NoGenResult]

IdleVal ==
    [pc |-> "idle", body |-> [InResponseTo |-> NoId, engineValid |-> FALSE],
     pre |-> [err |-> NoErr, isValid |-> FALSE, AuthnRequestID |-> NoId],
     live |-> FALSE, eng |-> NoValResult, racedWith |-> {}, log |-> <<>>,
     result |-> NoValResult]

\* No run of the strategy loader, of the certificate monitor or of the merge.
IdleLoad == [pc |-> "idle"]
IdleCert == [pc |-> "idle"]
IdleMerge == [pc |-> "idle"]

Init ==
    /\ config \in [hasTamperer : BOOLEAN, hasPreValidator : BOOLEAN,
                   hasObserver : BOOLEAN]
    /\ variant \in {"saml_client.ts", "part_000"}
    /\ cache = {}
    /\ gen = [c \in GenCalls |-> IdleGen]
    /\ val = [c \in ValCalls |-> IdleVal]
    /\ load = IdleLoad
    /\ cert = IdleCert
    /\ merge = IdleMerge

\* --------------------------------------------- generateAuthorizeRequest
\* super.generateAuthorizeRequest(req, isPassive, newCallback): the engine
\* answers newCallback with (e, xml).
GenEngine(c) ==
    /\ gen[c].pc = "idle"
    /\ \A d \in GenCalls : d < c => gen[d].pc # "idle"
    /\ \E ok \in BOOLEAN :
        LET draft == IF ok THEN [err |-> NoErr, xml |-> DraftXml(c)]
                           ELSE [err |-> EngineGenerateError, xml |-> NoXml]
            next == NewCallbackNext(config.hasTamperer, draft.xml)
        IN gen' = [gen EXCEPT ![c] =
                [@ EXCEPT !.pc = next,
                          !.draft = draft,
                          !.xml = draft.xml,
                          !.log = Append(@, "engine"),
                          !.result = IF next = "done"
                                     THEN IF config.hasTamperer
                                          THEN [err |-> draft.err, xml |-> NoXml]
                                          ELSE draft
                                     ELSE @]]
    /\ UNCHANGED <<config, variant, cache, val>>
    /\ UNCHANGED strategyVars

\* tamperAuthorizeRequest(xml) answers; on Right the chain invokes the
\* observer and issues save, on Left callback(error).
GenTamper(c) ==
    /\ gen[c].pc = "tamper"
    /\ \E ok \in BOOLEAN, throws \in BOOLEAN :
        IF ~ok
        THEN gen' = [gen EXCEPT ![c] =
                [@ EXCEPT !.pc = "done",
                          !.log = Append(@, "tamper"),
                          !.result = [err |-> TamperError, xml |-> NoXml]]]
        ELSE
            /\ (throws => config.hasObserver)
            /\ gen' = [gen EXCEPT ![c] =
                [@ EXCEPT !.pc = ObserverNext(variant, config.hasObserver, throws),
                          !.xml = TamperedXml(@),
                          !.log = @ \o <<"tamper">> \o
                                  (IF config.hasObserver
                                   THEN <<IF throws THEN "observerThrew"
                                                    ELSE "REQUEST">>
                                   ELSE <<>>)]]
    /\ UNCHANGED <<config, variant, cache, val>>
    /\ UNCHANGED strategyVars

\* extededCacheProvider.save(tamperedXml, config) answers.
GenSave(c) ==
    /\ gen[c].pc = "save"
    /\ \E ok \in BOOLEAN :
        LET record == [requestId |-> gen[c].xml.id, RequestXML |-> gen[c].xml]
        IN /\ cache' = IF ok THEN CacheSave(cache, gen[c].xml) ELSE cache
           /\ gen' = [gen EXCEPT ![c] =
                [@ EXCEPT !.pc = "done",
                          !.log = Append(@, IF ok THEN "saved" ELSE "saveFailed"),
                          !.result = OnSaveAnswer(ok, StoreError, record)]]
    /\ UNCHANGED <<config, variant, val>>
    /\ UNCHANGED strategyVars

\* ------------------------------------------------- validatePostResponse
InFlight(v) == v.pc \in {"engine", "remove"}

\* validatePostResponse(body, callback) with a pre-validator: the
\* pre-validator answers; on error callback(err), else the engine is invoked.
ValPreValidate(c) ==
    /\ config.hasPreValidator
    /\ val[c].pc = "idle"
    /\ \A d \in ValCalls : d < c => val[d].pc # "idle"
    /\ \E rid \in RequestIds, engineValid \in BOOLEAN :
      \E pre \in PreValidateAnswers(cache,
                    [InResponseTo |-> rid, engineValid |-> engineValid]) :
        LET body == [InResponseTo |-> rid, engineValid |-> engineValid]
            next == AfterPreValidate(pre.err)
            racing == {d \in ValCalls \ {c} :
                          InFlight(val[d]) /\ val[d].body.InResponseTo = rid}
        IN val' = [d \in ValCalls |->
                IF d = c
                THEN [val[c] EXCEPT !.pc = next,
                          !.body = body,
                          !.pre = pre,
                          !.live = CacheHas(cache, rid),
                          !.racedWith = racing,
                          !.log = Append(@, "pre"),
                          !.result = IF next = "done"
                                     THEN OnPreValidateError(pre.err) ELSE @]
                ELSE IF d \in racing
                     THEN [val[d] EXCEPT !.racedWith = @ \cup {c}]
                     ELSE val[d]]
    /\ UNCHANGED <<config, variant, cache, gen>>
    /\ UNCHANGED strategyVars

\* validatePostResponse(body, callback) without a pre-validator:
\* super.validatePostResponse(body, callback).
ValPlain(c) ==
    /\ ~config.hasPreValidator
    /\ val[c].pc = "idle"
    /\ \A d \in ValCalls : d < c => val[d].pc # "idle"
    /\ \E rid \in RequestIds, engineValid \in BOOLEAN :
        LET body == [InResponseTo |-> rid, engineValid |-> engineValid]
            eng == EngineValidatePostResponse(body)
        IN val' = [val EXCEPT ![c] =
                [@ EXCEPT !.pc = "done",
                          !.body = body,
                          !.eng = eng,
                          !.log = Append(@, "engine"),
                          !.result = eng]]
    /\ UNCHANGED <<config, variant, cache, gen>>
    /\ UNCHANGED strategyVars

\* super.validatePostResponse(body, (error, __, ___) => ...) answers: remove
\* is issued, or the engine's answer goes to the caller.
ValEngine(c) ==
    /\ val[c].pc = "engine"
    /\ LET eng == EngineValidatePostResponse(val[c].body)
           rm == ShouldRemove(eng.err, val[c].pre.isValid,
                              val[c].pre.AuthnRequestID)
       IN val' = [val EXCEPT ![c] =
                [@ EXCEPT !.pc = IF rm THEN "remove" ELSE "done",
                          !.eng = eng,
                          !.log = Append(@, "engine"),
                          !.result = IF rm THEN @ ELSE eng]]
    /\ UNCHANGED <<config, variant, cache, gen>>
    /\ UNCHANGED strategyVars

\* extededCacheProvider.remove(AuthnRequestID) answers.
ValRemove(c) ==
    /\ val[c].pc = "remove"
    /\ \E ok \in BOOLEAN :
        /\ cache' = IF ok THEN CacheRemove(cache, val[c].pre.AuthnRequestID)
                          ELSE cache
        /\ val' = [val EXCEPT ![c] =
                [@ EXCEPT !.pc = "done",
                          !.log = Append(@, IF ok THEN "removed" ELSE "removeFailed"),
                          !.result = OnRemoveAnswer(ok, StoreError,
                                                    val[c].eng.err,
                                                    val[c].eng.profile)]]
    /\ UNCHANGED <<config, variant, gen>>
    /\ UNCHANGED strategyVars

\* A record not removed before its TTL elapses is dropped by the store.
Expire(rid) ==
    /\ CacheHas(cache, rid)
    /\ cache' = CacheRemove(cache, rid)
    /\ UNCHANGED <<config, variant, gen, val>>
    /\ UNCHANGED strategyVars

Next ==
    \/ \E c \in GenCalls : GenEngine(c)
    \/ \E c \in GenCalls : GenTamper(c)
    \/ \E c \in GenCalls : GenSave(c)
    \/ \E c \in ValCalls : ValPreValidate(c)
    \/ \E c \in ValCalls : ValPlain(c)
    \/ \E c \in ValCalls : ValEngine(c)
    \/ \E c \in ValCalls : ValRemove(c)
    \/ \E rid \in RequestIds : Expire(rid)

Spec == Init /\ [][Next]_vars

\* Every collaborator that was asked eventually answers: the tamperer,
\* save, the engine's validation and remove.
Answers ==
    /\ \A c \in GenCalls : WF_vars(GenTamper(c)) /\ WF_vars(GenSave(c))
    /\ \A c \in ValCalls : WF_vars(ValEngine(c)) /\ WF_vars(ValRemove(c))

FairSpec == Spec /\ Answers

\* =================================================== strategies/spidStrategy
\* ---------------------------------------------------------------- bounds
MaxDup == 1        \* repeated records of one entity in a metadata document
MaxUnknown == 1    \* records of unrecognized entities in a metadata document
MaxSources == 2    \* records merged in one application of the merge
MaxCertDays == 70  \* distance in days between now and notAfter
MaxNow == 1        \* the day on which the certificate monitor runs

\* ------------------------------------------------------------- constants
\* IDP_IDS, as its entries in declaration order.
IdpIdEntries ==
    << <<"https://id.lepida.it/idp/shibboleth", "lepidaid">>,
       <<"https://identity.infocert.it", "infocertid">>,
       <<"https://identity.sieltecloud.it", "sielteid">>,
       <<"https://idp.namirialtsp.com/idp", "namirialid">>,
       <<"https://login.id.tim.it/affwebservices/public/saml2sso", "timid">>,
       <<"https://loginspid.aruba.it", "arubaid">>,
       <<"https://posteid.poste.it", "posteid">>,
       <<"https://spid.intesa.it", "intesaid">>,
       <<"https://spid.register.it", "spiditalia">> >>

ValidatorIdEntries == << <<"https://validator.spid.gov.it", "xx_validator">> >>

\* Object.keys of a Record<string, string> given by its entries.
Keys(entries) == [i \in 1..Len(entries) |-> entries[i][1]]

\* The Record<string, string> given by its entries.
RecordOf(entries) ==
    [e \in {entries[i][1] : i \in 1..Len(entries)} |->
        entries[CHOOSE i \in 1..Len(entries) : entries[i][1] = e][2]]

IDP_IDS == RecordOf(IdpIdEntries)
VALIDATOR_IDS == RecordOf(ValidatorIdEntries)

ValidatorMetadataUrl == "https://validator.spid.gov.it/metadata.xml"
IDPMetadataUrls == {"https://registry.spid.gov.it/metadata/idp/spid-entities-idps.xml"}
SpidTestEnvUrls == {"https://spid-testenv2:8088", "http://localhost:8088"}

\* An entity no recognized set contains.
UnknownEntityId == "https://idp.unknown.example"

WarningDays == 60

\* ------------------------------------------------- metadata documents
\* An IDPOption read from the document at url: the k-th record of entity e.
Descriptor(url, e, k) ==
    [cert |-> <<url, ToString(k)>>, entityID |-> e,
     entryPoint |-> <<e, "/sso">>, logoutUrl |-> <<e, "/slo">>]

RECURSIVE SortedSeq(_)
SortedSeq(S) ==
    IF S = {} THEN <<>>
    ELSE LET m == CHOOSE x \in S : \A y \in S : x <= y
         IN <<m>> \o SortedSeq(S \ {m})

\* The EntityDescriptor elements of a document: the recognized entities
\* `present` (indices into keys), `dup` further records of the first of
\* them, and `unknown` records of an unrecognized entity.
DocRecords(url, keys, present, dup, unknown) ==
    LET idx == SortedSeq(present)
    IN [i \in 1..Len(idx) |-> Descriptor(url, keys[idx[i]], 1)]
       \o (IF present = {} THEN <<>>
           ELSE [k \in 1..dup |-> Descriptor(url, keys[idx[1]], k + 1)])
       \o [k \in 1..unknown |-> Descriptor(url, UnknownEntityId, k)]

\* The documents a metadata url may serve.
Documents(url, keys) ==
    {[url |-> url, entities |-> DocRecords(url, keys, present, dup, unknown)] :
        present \in SUBSET (1..Len(keys)), dup \in 0..MaxDup,
        unknown \in 0..MaxUnknown}

\* fetchIdpMetadata: the document, or a rejected promise.
FetchOutcomes(url, keys) ==
    {[ok |-> FALSE, xml |-> [url |-> url, entities |-> <<>>]]}
        \cup {[ok |-> TRUE, xml |-> d] : d \in Documents(url, keys)}

\* parseIdpMetadata: one IDPOption per EntityDescriptor of the document.
ParseIdpMetadata(xml) == xml.entities

\* mapIpdMetadata: alias -> IDPOption for the records whose entityID is
\* recognized; a later record of an alias replaces an earlier one.
RECURSIVE MapIpdMetadata(_, _)
MapIpdMetadata(idpMetadata, idpIds) ==
    IF idpMetadata = <<>> THEN <<>>
    ELSE LET n == Len(idpMetadata)
             prev == MapIpdMetadata(SubSeq(idpMetadata, 1, n - 1), idpIds)
             idp == idpMetadata[n]
         IN IF idp.entityID \in DOMAIN idpIds
            THEN [a \in DOMAIN prev \cup {idpIds[idp.entityID]} |->
                     IF a = idpIds[idp.entityID] THEN idp ELSE prev[a]]
            ELSE prev

\* ------------------------------------------------------- loadFromRemote
Left(error) == [left |-> TRUE, error |-> error, warned |-> FALSE, value |-> <<>>]
Right(value, warned) ==
    [left |-> FALSE, error |-> NoErr, warned |-> warned, value |-> value]

\* Variant of HasMetadata that accepts an empty list of records.
HasMetadata_AcceptEmpty(idpMetadata) == TRUE

\* fromPredicate(idpMetadata => idpMetadata.length > 0, ...)
HasMetadata(idpMetadata) == Len(idpMetadata) > 0

\* if (idpMetadata.length < Object.keys(idpIds).length) log.warn(...)
MissingMetadata(idpMetadata, idpIds) ==
    Len(idpMetadata) < Cardinality(DOMAIN idpIds)

\* loadFromRemote(idpMetadataUrl, idpIds), given what the fetch answered.
LoadFromRemote(fetch, idpIds) ==
    IF ~fetch.ok THEN Left("FetchError")
    ELSE LET idpMetadata == ParseIdpMetadata(fetch.xml)
         IN IF ~HasMetadata(idpMetadata)
            THEN Left("No SPID metadata found")
            ELSE Right(MapIpdMetadata(idpMetadata, idpIds),
                       MissingMetadata(idpMetadata, idpIds))

\* ----------------------------------------------------- loadSpidStrategy
\* idpOptionsTasks: the main federation, then the validator when enabled.
IdpOptionsTasks(cfg) ==
    << [url |-> cfg.IDPMetadataUrl, entries |-> IdpIdEntries] >>
    \o (IF cfg.hasSpidValidatorEnabled
        THEN << [url |-> ValidatorMetadataUrl, entries |-> ValidatorIdEntries] >>
        ELSE <<>>)

\* array.sequence(taskEither): the first Left in order, or all the Rights.
Sequence(outs) ==
    IF \E i \in 1..Len(outs) : outs[i].left
    THEN [left |-> TRUE,
          error |-> outs[CHOOSE i \in 1..Len(outs) :
                            /\ outs[i].left
                            /\ \A j \in 1..(i - 1) : ~outs[j].left].error,
          values |-> <<>>]
    ELSE [left |-> FALSE, error |-> NoErr,
          values |-> [i \in 1..Len(outs) |-> outs[i].value]]

\* Variant of Spread in which the earlier record's entry wins.
Spread_EarlierWins(prev, current) ==
    [a \in DOMAIN prev \cup DOMAIN current |->
        IF a \in DOMAIN prev THEN prev[a] ELSE current[a]]

\* Variant of Spread that keeps the later record alone.
Spread_OnlyCurrent(prev, current) == current

\* (prev, current) => ({ ...prev, ...current })
Spread(prev, current) ==
    [a \in DOMAIN prev \cup DOMAIN current |->
        IF a \in DOMAIN current THEN current[a] ELSE prev[a]]

\* idpOptionsRecords.reduce((prev, current) => ..., {})
RECURSIVE MergeRecords(_)
MergeRecords(records) ==
    IF records = <<>> THEN <<>>
    ELSE Spread(MergeRecords(SubSeq(records, 1, Len(records) - 1)),
                records[Len(records)])

\* The two pinned test descriptors (certificates abbreviated).
ServiziCieTest ==
    [cert |-> <<"MIIDdTCCAl2gAwIBAgIUU79XEfveueyClDtLkqUlSPZ2o8ow">>,
     entityID |-> "xx_servizicie_test",
     entryPoint |->
         <<"https://idserver.servizicie.interno.gov.it:8443/idp/profile/SAML2/Redirect/SSO">>,
     logoutUrl |-> <<"">>]

TestEnv2(spidTestEnvUrl) ==
    [cert |-> <<"MIIC7TCCAdWgAwIBAgIJAMbxPOoBth1LMA0GCSqGSIb3DQEBCwUA">>,
     entityID |-> "xx_testenv2",
     entryPoint |-> <<spidTestEnvUrl, "/sso">>,
     logoutUrl |-> <<spidTestEnvUrl, "/slo">>]

PinnedAliases == {"xx_servizicie_test", "xx_testenv2"}

\* Variant of IdpOptions in which an entry of the remote record wins over a
\* pinned one.
IdpOptions_RemoteWins(idpOptionsRecord, spidTestEnvUrl) ==
    [a \in DOMAIN idpOptionsRecord \cup PinnedAliases |->
        IF a \in DOMAIN idpOptionsRecord THEN idpOptionsRecord[a]
        ELSE IF a = "xx_servizicie_test" THEN ServiziCieTest
        ELSE TestEnv2(spidTestEnvUrl)]

\* idp: { ...idpOptionsRecord, xx_servizicie_test: {...}, xx_testenv2: {...} }
IdpOptions(idpOptionsRecord, spidTestEnvUrl) ==
    [a \in DOMAIN idpOptionsRecord \cup PinnedAliases |->
        IF a = "xx_servizicie_test" THEN ServiziCieTest
        ELSE IF a = "xx_testenv2" THEN TestEnv2(spidTestEnvUrl)
        ELSE idpOptionsRecord[a]]

\* ------------------------------------------------ logSamlCertExpiration
\* date-fns isAfter and subDays, on dates counted in days.
IsAfter(date, dateToCompare) == date > dateToCompare
SubDays(date, amount) == date - amount

\* What x509.parseCert gives: it throws, or a certificate with or without
\* notAfter.
SamlCerts(now) ==
    {[kind |-> "unparsable", notAfter |-> now],
     [kind |-> "noNotAfter", notAfter |-> now]}
        \cup {[kind |-> "parsed", notAfter |-> d] :
                 d \in (now - MaxCertDays)..(now + MaxCertDays)}

\* logSamlCertExpiration(samlCert): the level and message logged.
LogSamlCertExpiration(samlCert, now) ==
    IF samlCert.kind = "unparsable"
    THEN [level |-> "error", msg |-> "Error calculating saml cert expiration"]
    ELSE IF samlCert.kind = "noNotAfter"
    THEN [level |-> "error", msg |-> "Missing expiration date on saml certificate."]
    ELSE LET warningDate == SubDays(now, WarningDays)
         IN IF IsAfter(samlCert.notAfter, warningDate)
            THEN [level |-> "info", msg |-> "samlCert expire in"]
            ELSE IF IsAfter(samlCert.notAfter, now)
            THEN [level |-> "warn", msg |-> "samlCert expire in"]
            ELSE [level |-> "error", msg |-> "samlCert expired from"]

\* -------------------------------------------- a run of loadSpidStrategy
ClientIdle ==
    /\ config = [hasTamperer |-> TRUE, hasPreValidator |-> TRUE,
                 hasObserver |-> TRUE]
    /\ variant = "part_000"
    /\ cache = {}
    /\ gen = [c \in GenCalls |-> IdleGen]
    /\ val = [c \in ValCalls |-> IdleVal]

InitStrategy ==
    /\ ClientIdle
    /\ load = IdleLoad
    /\ cert = IdleCert
    /\ merge = IdleMerge

\* loadSpidStrategy(config): the tasks are created.
LoadSpidStrategy ==
    /\ load.pc = "idle"
    /\ \E url \in IDPMetadataUrls, validator \in BOOLEAN,
          testEnv \in SpidTestEnvUrls :
        LET cfg == [IDPMetadataUrl |-> url,
                    hasSpidValidatorEnabled |-> validator,
                    spidTestEnvUrl |-> testEnv]
            tasks == IdpOptionsTasks(cfg)
        IN load' = [pc |-> "loading", config |-> cfg,
                    tasks |-> [i \in 1..Len(tasks) |->
                                  [url |-> tasks[i].url,
                                   entries |-> tasks[i].entries,
                                   settled |-> FALSE,
                                   fetch |-> [ok |-> FALSE,
                                              xml |-> [url |-> tasks[i].url,
                                                       entities |-> <<>>]],
                                   out |-> Left(NoErr)]]]
    /\ UNCHANGED <<clientVars, cert, merge>>

\* One loadFromRemote task runs to its end.
RunLoadFromRemote(i) ==
    /\ load.pc = "loading"
    /\ i \in 1..Len(load.tasks)
    /\ ~load.tasks[i].settled
    /\ \E fetch \in FetchOutcomes(load.tasks[i].url, Keys(load.tasks[i].entries)) :
        load' = [load EXCEPT !.tasks[i] =
            [@ EXCEPT !.settled = TRUE,
                      !.fetch = fetch,
                      !.out = LoadFromRemote(fetch,
                                             RecordOf(load.tasks[i].entries))]]
    /\ UNCHANGED <<clientVars, cert, merge>>

\* All tasks have settled: sequence, merge, certificate monitor, strategy.
BuildStrategy ==
    /\ load.pc = "loading"
    /\ \A i \in 1..Len(load.tasks) : load.tasks[i].settled
    /\ \E samlCert \in {c \in SamlCerts(MaxNow) :
                           c.kind # "unparsable" /\ c.notAfter = MaxNow} :
        LET seq == Sequence([i \in 1..Len(load.tasks) |-> load.tasks[i].out])
        IN load' =
            IF seq.left
            THEN [pc |-> "done", config |-> load.config, tasks |-> load.tasks,
                  left |-> TRUE, error |-> seq.error, idp |-> <<>>,
                  certLog |-> <<>>]
            ELSE [pc |-> "done", config |-> load.config, tasks |-> load.tasks,
                  left |-> FALSE, error |-> NoErr,
                  idp |-> IdpOptions(MergeRecords(seq.values),
                                     load.config.spidTestEnvUrl),
                  certLog |-> <<LogSamlCertExpiration(samlCert, MaxNow)>>]
    /\ UNCHANGED <<clientVars, cert, merge>>

NextStrategy ==
    \/ LoadSpidStrategy
    \/ \E i \in 1..2 : RunLoadFromRemote(i)
    \/ BuildStrategy

SpecStrategy == InitStrategy /\ [][NextStrategy]_vars

\* ---------------------------------------- the certificate monitor alone
\* logSamlCertExpiration applied to a certificate on day now.
CertRun ==
    /\ cert.pc = "idle"
    /\ \E now \in 0..MaxNow :
        \E samlCert \in SamlCerts(now) :
            cert' = [pc |-> "done", now |-> now, samlCert |-> samlCert,
                     logged |-> LogSamlCertExpiration(samlCert, now)]
    /\ UNCHANGED <<clientVars, load, merge>>

NextCert == CertRun

SpecCert == InitStrategy /\ [][NextCert]_vars

\* ------------------------------------- the merge and the idp build alone
\* Aliases the merged records range over: two of IDP_IDS, the validator's
\* and the two pinned ones.
MergeAliases ==
    {"posteid", "arubaid", "xx_validator", "xx_servizicie_test", "xx_testenv2"}

\* The alias -> IDPOption records source number i may give.
SourceRecords(i) ==
    {[a \in D |-> Descriptor(ToString(i), a, 1)] : D \in SUBSET MergeAliases}

\* The reduce of loadSpidStrategy and the idp object built from its result.
MergeRun ==
    /\ merge.pc = "idle"
    /\ \E n \in 1..MaxSources, testEnv \in SpidTestEnvUrls :
        \E pick \in [1..n -> SUBSET MergeAliases] :
            LET records == [i \in 1..n |->
                               [a \in pick[i] |-> Descriptor(ToString(i), a, 1)]]
            IN merge' = [pc |-> "done", records |-> records,
                         spidTestEnvUrl |-> testEnv,
                         merged |-> MergeRecords(records),
                         idp |-> IdpOptions(MergeRecords(records), testEnv)]
    /\ UNCHANGED <<clientVars, load, cert>>

NextMerge == MergeRun

SpecMerge == InitStrategy /\ [][NextMerge]_vars

\* ================================================================ claims
InLog(log, e) == \E i \in 1..Len(log) : log[i] = e

GenDone(c) == gen[c].pc = "done"
ValDone(c) == val[c].pc = "done"
ValSucceeded(c) == ValDone(c) /\ val[c].result.err = NoErr
RemoveIssued(c) ==
    \/ val[c].pc = "remove"
    \/ InLog(val[c].log, "removed")
    \/ InLog(val[c].log, "removeFailed")

\* The pre-validator correlated the Response of call c with its request.
Correlated(c) ==
    /\ val[c].pre.err = NoErr /\ val[c].pre.isValid
    /\ val[c].pre.AuthnRequestID = val[c].body.InResponseTo

\* C1: with tamperer and pre-validator configured, a requestId validates at
\* most one Response: over any sequence of operations at most one
\* validatePostResponse carrying a correctly correlated Response that
\* references it reports success.
C1_RequestIdValidatesAtMostOnce ==
    (config.hasTamperer /\ config.hasPreValidator) =>
        \A rid \in RequestIds :
            Cardinality({c \in ValCalls :
                /\ ValSucceeded(c)
                /\ val[c].body.InResponseTo = rid
                /\ Correlated(c)}) <= 1

\* C2: two validatePostResponse calls racing on the same requestId with
\* engine-valid Responses (the record live for at least one of them, no
\* cache operation failing) end with exactly one success and one
\* ReplayOrUnknownRequestError.
C2_RaceExactlyOneSuccess ==
    config.hasPreValidator =>
        \A a \in ValCalls, b \in ValCalls :
            ( /\ a # b
              /\ ValDone(a) /\ ValDone(b)
              /\ b \in val[a].racedWith
              /\ val[a].body.InResponseTo = val[b].body.InResponseTo
              /\ val[a].body.engineValid /\ val[b].body.engineValid
              /\ val[a].live
              /\ (val[a].pre.err = NoErr => Correlated(a))
              /\ (val[b].pre.err = NoErr => Correlated(b))
              /\ ~InLog(val[a].log, "removeFailed")
              /\ ~InLog(val[b].log, "removeFailed") )
            => \/ ValSucceeded(a) /\ val[b].result.err = ReplayOrUnknownRequestError
               \/ ValSucceeded(b) /\ val[a].result.err = ReplayOrUnknownRequestError

\* C3: with a pre-validator, a call whose Response references a requestId
\* with no live record in the cache (never generated, expired or consumed)
\* ends in failure, even when the engine would accept the Response.
C3_NoLiveRecordFails ==
    config.hasPreValidator =>
        \A c \in ValCalls :
            (val[c].pc # "idle" /\ ~val[c].live) =>
                /\ ValDone(c)
                /\ val[c].result.err # NoErr
                /\ val[c].result.profile = NoProfile
                /\ ~RemoveIssued(c)

\* C3 witness: an engine-valid Response referencing a request that was saved
\* and is no longer live has been refused.
C3_Witness ==
    /\ config.hasPreValidator
    /\ \E c \in ValCalls :
        /\ ValDone(c) /\ ~val[c].live /\ val[c].body.engineValid
        /\ val[c].body.InResponseTo \in GenCalls
        /\ InLog(gen[val[c].body.InResponseTo].log, "saved")
        /\ val[c].result.err = ReplayOrUnknownRequestError

\* C4: with a tamperer, a failed save gives the caller the error and no XML,
\* and every XML delivered to the caller had its record saved before.
C4_SaveFailureIsFatal ==
    config.hasTamperer =>
        \A c \in GenCalls :
            GenDone(c) =>
                /\ InLog(gen[c].log, "saveFailed") =>
                       gen[c].result = [err |-> StoreError, xml |-> NoXml]
                /\ gen[c].result.xml # NoXml =>
                       /\ InLog(gen[c].log, "saved")
                       /\ gen[c].result.err = NoErr

\* C4 witness: a generate call whose save failed has completed.
C4_Witness ==
    /\ config.hasTamperer
    /\ \E c \in GenCalls :
        GenDone(c) /\ InLog(gen[c].log, "saveFailed")

\* C5: when pre-validation and engine validation succeed but remove fails,
\* the caller receives the remove failure and no profile.
C5_RemoveFailureIsSurfaced ==
    \A c \in ValCalls :
        (ValDone(c) /\ InLog(val[c].log, "removeFailed")) =>
            /\ val[c].result.err = StoreError
            /\ val[c].result.profile = NoProfile

\* C5 witness: a call with successful pre-validation and engine validation
\* whose remove failed has completed.
C5_Witness ==
    \E c \in ValCalls :
        /\ ValDone(c) /\ InLog(val[c].log, "removeFailed")
        /\ val[c].pre.err = NoErr /\ val[c].eng.err = NoErr

\* C6, state part: remove is issued only after pre-validation found a valid
\* identifier and the engine succeeded; a run in which a stage failed issues
\* no remove and hands the caller exactly that stage's error.
C6_RemoveOnlyAfterBothStages ==
    \A c \in ValCalls :
        /\ RemoveIssued(c) =>
               /\ val[c].pre.err = NoErr /\ val[c].pre.isValid
               /\ val[c].pre.AuthnRequestID = val[c].body.InResponseTo
               /\ val[c].eng.err = NoErr
        /\ (ValDone(c) /\ val[c].pre.err # NoErr) =>
               val[c].result = [err |-> val[c].pre.err, profile |-> NoProfile]
        /\ (ValDone(c) /\ val[c].eng.err # NoErr) =>
               val[c].result.err = val[c].eng.err

\* C6, step part: a step of a call whose pre-validation or engine validation
\* failed leaves the cache unchanged.
C6_FailedStageKeepsCache ==
    \A c \in ValCalls :
        (val'[c] # val[c] /\ (val'[c].pre.err # NoErr \/ val'[c].eng.err # NoErr))
            => cache' = cache

\* C6: remove is issued only when both stages succeeded; when a stage fails
\* the cache is unchanged and the caller gets that stage's error.
C6_FrameOnFailure ==
    []C6_RemoveOnlyAfterBothStages /\ [][C6_FailedStageKeepsCache]_vars

\* C6 witness: a call whose pre-validation found the record failed in the
\* engine, got the engine's error, and its record is still in the cache.
C6_Witness ==
    \E c \in ValCalls :
        /\ ValDone(c) /\ val[c].live
        /\ val[c].result.err = EngineValidationError
        /\ CacheHas(cache, val[c].body.InResponseTo)

\* C7: with a pre-validator the stages run in the order pre-validation,
\* engine validation, consumption: the engine is never invoked after a
\* pre-validation error and remove is never issued before the engine answered.
C7_StageOrder ==
    config.hasPreValidator =>
        \A c \in ValCalls :
            /\ (val[c].pc = "engine" \/ InLog(val[c].log, "engine")) =>
                   /\ val[c].log[1] = "pre"
                   /\ val[c].pre.err = NoErr
            /\ RemoveIssued(c) =>
                   /\ Len(val[c].log) >= 2
                   /\ val[c].log[1] = "pre"
                   /\ val[c].log[2] = "engine"
            /\ \A i \in 1..Len(val[c].log) :
                   /\ val[c].log[i] = "pre" => i = 1
                   /\ val[c].log[i] = "engine" => i = 2
                   /\ val[c].log[i] \in {"removed", "removeFailed"} => i = 3

\* C7 witness: one call went through all three stages and another stopped
\* at a pre-validation error.
C7_Witness ==
    /\ config.hasPreValidator
    /\ \E c \in ValCalls : val[c].log = <<"pre", "engine", "removed">>
    /\ \E c \in ValCalls :
        ValDone(c) /\ val[c].pre.err # NoErr /\ val[c].log = <<"pre">>

\* C8: the observer receives a REQUEST event only for a request whose record
\* was saved and whose XML was delivered: a generateAuthorizeRequest call
\* that ended in an error to the caller emitted no REQUEST event.
C8_RequestEventOnlyOnSuccess ==
    \A c \in GenCalls :
        (GenDone(c) /\ InLog(gen[c].log, "REQUEST")) =>
            /\ InLog(gen[c].log, "saved")
            /\ gen[c].result.err = NoErr

\* C9: an observer that throws never fails or blocks
\* generateAuthorizeRequest: save is still issued and the caller's callback
\* is still invoked.
C9_ObserverFailureNeverBlocks ==
    \A c \in GenCalls :
        InLog(gen[c].log, "observerThrew") =>
            /\ gen[c].pc \in {"save", "done"}
            /\ GenDone(c) => \/ InLog(gen[c].log, "saved")
                             \/ InLog(gen[c].log, "saveFailed")

\* C10: without a tamperer the caller gets exactly the engine's draft result
\* and neither save nor the observer is invoked: the cache is unchanged.
C10_NoTampererPassThrough ==
    ~config.hasTamperer =>
        /\ cache = {}
        /\ \A c \in GenCalls :
            /\ gen[c].pc \in {"idle", "done"}
            /\ GenDone(c) =>
                   /\ gen[c].result = gen[c].draft
                   /\ gen[c].log = <<"engine">>

\* C10 witness: without a tamperer and with an observer configured, a call
\* delivered the engine's draft XML.
C10_Witness ==
    /\ ~config.hasTamperer /\ config.hasObserver
    /\ \E c \in GenCalls :
        GenDone(c) /\ gen[c].result = [err |-> NoErr, xml |-> DraftXml(c)]

\* C11: when the engine produces no draft XML or the tamperer answers an
\* error, the caller gets that error, and in that run neither save nor the
\* observer is invoked and no cache record is created.
C11_TamperOrDraftFailure ==
    config.hasTamperer =>
        \A c \in GenCalls :
            /\ (gen[c].pc # "idle" /\ gen[c].draft.xml = NoXml) =>
                   /\ GenDone(c)
                   /\ gen[c].result = [err |-> gen[c].draft.err, xml |-> NoXml]
                   /\ gen[c].log = <<"engine">>
                   /\ ~CacheHas(cache, c)
            /\ (GenDone(c) /\ gen[c].log = <<"engine", "tamper">>) =>
                   /\ gen[c].result = [err |-> TamperError, xml |-> NoXml]
                   /\ ~CacheHas(cache, c)
            /\ (GenDone(c) /\ gen[c].result.err \in {TamperError, EngineGenerateError}) =>
                   /\ ~InLog(gen[c].log, "REQUEST")
                   /\ ~InLog(gen[c].log, "observerThrew")
                   /\ ~InLog(gen[c].log, "saved")
                   /\ ~InLog(gen[c].log, "saveFailed")

\* C11 witness: with a tamperer and an observer configured, a call ended in
\* the tamperer's error.
C11_Witness ==
    /\ config.hasTamperer /\ config.hasObserver
    /\ \E c \in GenCalls :
        GenDone(c) /\ gen[c].result.err = TamperError

\* C19: with a pre-validator, a call reports success only after the
\* correlated requestId was removed from the cache; a run whose
\* pre-validation reported no error but no valid identifier reports no
\* success.
C19_SuccessOnlyAfterConsumption ==
    config.hasPreValidator =>
        \A c \in ValCalls :
            ValSucceeded(c) =>
                /\ Correlated(c)
                /\ InLog(val[c].log, "removed")

\* C20: when every collaborator eventually answers, every call of
\* generateAuthorizeRequest and of validatePostResponse eventually invokes
\* the caller's callback.
C20_EveryCallCompletes ==
    /\ \A c \in GenCalls : (gen[c].pc # "idle") ~> (gen[c].pc = "done")
    /\ \A c \in ValCalls : (val[c].pc # "idle") ~> (val[c].pc = "done")

\* ---------------------------------------------------- strategy claims
LoadDone == load.pc = "done"
LoadOk == LoadDone /\ ~load.left
TaskIds == IF load.pc = "idle" THEN {} ELSE 1..Len(load.tasks)

\* The entity ids of the records of task i's document.
EntityIdsIn(i) ==
    {load.tasks[i].fetch.xml.entities[j].entityID :
        j \in 1..Len(load.tasks[i].fetch.xml.entities)}

\* The recognized entity ids found in task i's document.
RecognizedFound(i) ==
    {e \in EntityIdsIn(i) :
        \E k \in 1..Len(load.tasks[i].entries) : load.tasks[i].entries[k][1] = e}

\* The alias the entries of task i give to entity e.
AliasOf(i, e) ==
    load.tasks[i].entries[CHOOSE k \in 1..Len(load.tasks[i].entries) :
                              load.tasks[i].entries[k][1] = e][2]

\* C12: the trust map built from the fetched documents holds exactly one
\* descriptor for each recognized entity id present in a document, and, the
\* pinned entries apart, no descriptor of any other entity.
C12_TrustMapIsWhitelisted ==
    LoadOk =>
        LET remote == DOMAIN load.idp \ PinnedAliases
        IN /\ \A i \in TaskIds : \A e \in RecognizedFound(i) :
                  /\ AliasOf(i, e) \in remote
                  /\ load.idp[AliasOf(i, e)].entityID = e
                  /\ load.idp[AliasOf(i, e)].cert[1] = load.tasks[i].url
           /\ \A a \in remote : \E i \in TaskIds : \E e \in RecognizedFound(i) :
                  AliasOf(i, e) = a /\ load.idp[a].entityID = e
           /\ Cardinality(remote) =
                  Cardinality({<<i, e>> \in TaskIds \X (UNION {EntityIdsIn(i) : i \in TaskIds}) :
                                  e \in RecognizedFound(i)})
           /\ \A i \in TaskIds :
                  DOMAIN load.tasks[i].out.value =
                      {AliasOf(i, e) : e \in RecognizedFound(i)}

\* C12 witness: a build from two sources whose main document held several
\* recognized entities, a repeated one and an unrecognized one.
C12_Witness ==
    /\ LoadOk /\ Len(load.tasks) = 2
    /\ Cardinality(RecognizedFound(1)) >= 2
    /\ Cardinality(RecognizedFound(2)) = 1
    /\ UnknownEntityId \in EntityIdsIn(1)
    /\ Len(load.tasks[1].fetch.xml.entities) > Cardinality(EntityIdsIn(1))

\* C13: loadSpidStrategy succeeds only if every configured source was
\* fetched and gave at least one parsed record; otherwise it fails with an
\* error and produces no strategy.
C13_AllSourcesOrNothing ==
    LoadDone =>
        /\ Len(load.tasks) = (IF load.config.hasSpidValidatorEnabled THEN 2 ELSE 1)
        /\ (~load.left) <=>
               \A i \in TaskIds :
                   /\ load.tasks[i].fetch.ok
                   /\ Len(load.tasks[i].fetch.xml.entities) > 0
        /\ load.left =>
               /\ load.error # NoErr
               /\ DOMAIN load.idp = {}

\* C13 witness: the main source gave records, the validator's document was
\* fetched but held none, and the build failed.
C13_Witness ==
    /\ LoadDone /\ load.left /\ Len(load.tasks) = 2
    /\ load.tasks[1].fetch.ok /\ Len(load.tasks[1].fetch.xml.entities) > 0
    /\ load.tasks[2].fetch.ok /\ Len(load.tasks[2].fetch.xml.entities) = 0
    /\ load.error = "No SPID metadata found"

\* C14: no successful build produces a trust map without an IdP imported
\* from remote metadata: when no fetched record has a recognized entity id
\* the build fails.
C14_NoBuildWithoutRemoteIdp ==
    LoadOk => DOMAIN load.idp \ PinnedAliases # {}

\* C16: loadFromRemote warns of missing metadata exactly when the number of
\* recognized entities found in the document is smaller than the number of
\* expected recognized ids.
C16_WarnsIffRecognizedMissing ==
    \A i \in TaskIds :
        (load.tasks[i].settled /\ ~load.tasks[i].out.left) =>
            (load.tasks[i].out.warned <=>
                Cardinality(RecognizedFound(i)) < Len(load.tasks[i].entries))

\* C15: the idp object built from any merged record holds the two pinned
\* descriptors with their fixed values, also when the merged record had an
\* entry under one of their aliases.
C15_PinnedAlwaysPresent ==
    merge.pc = "done" =>
        /\ PinnedAliases \subseteq DOMAIN merge.idp
        /\ merge.idp["xx_servizicie_test"] = ServiziCieTest
        /\ merge.idp["xx_testenv2"] = TestEnv2(merge.spidTestEnvUrl)
        /\ \A a \in DOMAIN merge.merged \ PinnedAliases :
               merge.idp[a] = merge.merged[a]

\* C15 witness: the merged record had entries under both pinned aliases.
C15_Witness ==
    /\ merge.pc = "done"
    /\ PinnedAliases \subseteq DOMAIN merge.merged
    /\ "posteid" \in DOMAIN merge.merged

\* C18: the records of several sources are merged in order: the merged
\* record has the aliases of all of them and, for an alias present in more
\* than one, the descriptor of the latest source that has it.
C18_LaterSourceWins ==
    merge.pc = "done" =>
        /\ DOMAIN merge.merged =
               UNION {DOMAIN merge.records[i] : i \in 1..Len(merge.records)}
        /\ \A a \in DOMAIN merge.merged :
               LET last == CHOOSE i \in 1..Len(merge.records) :
                               /\ a \in DOMAIN merge.records[i]
                               /\ \A j \in (i + 1)..Len(merge.records) :
                                      a \notin DOMAIN merge.records[j]
               IN merge.merged[a] = merge.records[last][a]

\* C18 witness: an alias was present in two sources and another in the
\* first one alone.
C18_Witness ==
    /\ merge.pc = "done" /\ Len(merge.records) >= 2
    /\ "posteid" \in DOMAIN merge.records[1]
    /\ "posteid" \in DOMAIN merge.records[2]
    /\ "arubaid" \in DOMAIN merge.records[1]
    /\ "arubaid" \notin DOMAIN merge.records[2]

\* C17: the certificate monitor reports informational when notAfter is more
\* than 60 days ahead, a warning when it is ahead by 60 days or less, an
\* error when now is at or past notAfter, and the missing-expiry report when
\* notAfter is missing.
C17_ExpiryClassification ==
    cert.pc = "done" =>
        /\ cert.samlCert.kind = "noNotAfter" =>
               cert.logged = [level |-> "error",
                              msg |-> "Missing expiration date on saml certificate."]
        /\ cert.samlCert.kind = "parsed" =>
               cert.logged.level =
                   (IF cert.samlCert.notAfter - cert.now > WarningDays THEN "info"
                    ELSE IF cert.samlCert.notAfter > cert.now THEN "warn"
                    ELSE "error")

====
